---- MODULE Spec2Model ----
(***************************************************************************)
(* State-machine model of the ServiceAvailability view                     *)
(* (src/src/pages/ServiceAvailability.tsx; src/unnamed/part_000 is an      *)
(* earlier styling of the same component with the same logic).             *)
(*                                                                         *)
(* React state cells are the variables.  One action is one browser event   *)
(* (mount, a user gesture, the resolution of an awaited request) together  *)
(* with the effects React runs because of it.  JavaScript is single        *)
(* threaded, so the code between two awaits is one atomic step.            *)
(*                                                                         *)
(* OwnerServicesTable (src/unnamed/part_001) is a separate component with  *)
(* its own state; OwnerSpec is its specification, Spec and FairSpec are    *)
(* the availability view's.                                                *)
(***************************************************************************)
EXTENDS Integers, Sequences, FiniteSets, TLC

\* ------------------------------------------------------------------ bounds

\* At most this many slot fetches are outstanding at once.
MaxInFlight == 2

\* Instants per calendar day (an instant stands for one millisecond).
TicksPerDay == 3

\* ------------------------------------------------- the record store (input)

\* `undefined` for a resource identifier, `null` for the error message.
NoId == "undefined"
Null == "null"
\* slot_price of a row whose price column is NULL.
NullPrice == -1
NoSlot == "-"

\* Calendar days the user can pick.
Dates == {0, 1}

\* Rows of business_resources.
ResourceTable ==
    { [id |-> "R1", name |-> "Court A", business_id |-> "B1"],
      [id |-> "R2", name |-> "Court B", business_id |-> "B1"],
      [id |-> "R3", name |-> "Pitch",   business_id |-> "B2"] }

\* The store's collation of the names above, ascending.
NameOrder == <<"Court A", "Court B", "Pitch">>

\* Values of props.initialResourceId || urlResourceId ("RX" matches no row).
InitialIds == {NoId, "R1", "R2", "RX"}

StartOfDay(d) == d * TicksPerDay
EndOfDay(d) == StartOfDay(d) + TicksPerDay - 1

\* Rows of slots, without the booked flag (see BookedChoices).
SlotTable ==
    { [id |-> "s1", resource_id |-> "R1", start_time |-> StartOfDay(0),     slot_price |-> 10],
      [id |-> "s2", resource_id |-> "R1", start_time |-> StartOfDay(0) + 1, slot_price |-> 5],
      [id |-> "s3", resource_id |-> "R2", start_time |-> StartOfDay(0),     slot_price |-> NullPrice],
      [id |-> "s4", resource_id |-> "R2", start_time |-> StartOfDay(1) + 1, slot_price |-> 7],
      [id |-> "s5", resource_id |-> "R1", start_time |-> EndOfDay(0),       slot_price |-> 3] }

SlotIds == {s.id : s \in SlotTable}

\* s4 is booked throughout; s1 may be booked by someone else at any time, so
\* two reads of the table can disagree on it.
AlwaysBooked == {"s4"}
Volatile == {"s1"}
BookedChoices == {AlwaysBooked \cup v : v \in SUBSET Volatile}

\* ------------------------------------------------------------ query helpers

RECURSIVE SortRows(_, _)
\* .order(col, {ascending: true}): rows as a sequence, ascending by key[row].
SortRows(rows, key) ==
    IF rows = {} THEN <<>>
    ELSE LET first == CHOOSE r \in rows : \A o \in rows : key[r] <= key[o]
         IN  <<first>> \o SortRows(rows \ {first}, key)

NameRank(n) == CHOOSE i \in DOMAIN NameOrder : NameOrder[i] = n

\* from("slots").eq("resource_id", r).gte("start_time", start).lt("start_time", end)
\*   .order("start_time"), read while the slots in `booked` are booked.
ListSlots(r, start, end, booked) ==
    LET hit == { s \in SlotTable :
                    /\ s.resource_id = r
                    /\ s.start_time >= start
                    /\ s.start_time < end }
        row(s) == [id |-> s.id, start_time |-> s.start_time,
                   is_booked |-> (s.id \in booked),
                   slot_price |-> s.slot_price, resource_id |-> s.resource_id]
        rows == {row(s) : s \in hit}
    IN  SortRows(rows, [x \in rows |-> x.start_time])

\* from("business_resources").select("id,name").eq("business_id", b).order("name")
ListSiblings(b) ==
    LET hit == { [id |-> x.id, name |-> x.name] :
                    x \in {y \in ResourceTable : y.business_id = b} }
    IN  SortRows(hit, [x \in hit |-> NameRank(x.name)])

SeqRange(q) == {q[i] : i \in DOMAIN q}

\* ------------------------------------------------------------------- state

VARIABLES
    mounted,              \* the first render has been committed, effects ran
    initialResourceId,    \* useState(props.initialResourceId || urlResourceId)
    selectedDate,
    resources,            \* sibling list, a sequence of [id, name]
    selectedResourceId,
    selectedResourceName,
    loadingResources,
    slots,                \* sequence of slot rows
    loadingSlots,
    error,
    selectedSlotIds,      \* the Selection
    resourceReq,          \* the awaited request of loadResources, if any
    slotReqs,             \* the awaited requests of the loadSlots calls, oldest first
    lastEvent,            \* history: the event handled last
    latestLoad,           \* history: outcome of the most recently started loadSlots
    landedStale,          \* history: identifiers in the Selection that were chosen
                          \* before the load whose rows `slots` holds was started
    userId,               \* OwnerServicesTable: the userId prop
    ownerMounted,         \* OwnerServicesTable: first commit done, effect ran
    services,             \* OwnerServicesTable: useState<OwnerService[]>([])
    loading,              \* OwnerServicesTable: useState(true)
    ownerReqs,            \* awaited queries of the fetchOwnerServices calls
    ownerEvent            \* history: the event OwnerServicesTable handled last

view == <<mounted, initialResourceId, selectedDate, resources, selectedResourceId,
          selectedResourceName, loadingResources, slots, loadingSlots, error,
          selectedSlotIds, resourceReq, slotReqs>>
\* The state of OwnerServicesTable (src/unnamed/part_001), a component of its
\* own that shares no state with the availability view.
owner == <<userId, ownerMounted, services, loading, ownerReqs, ownerEvent>>
vars == <<view, lastEvent, latestLoad, landedStale, owner>>

\* The component's state as one record, so that a handler and the effects it
\* triggers compose as functions.
Cur ==
    [ initialResourceId |-> initialResourceId, selectedDate |-> selectedDate,
      resources |-> resources, selectedResourceId |-> selectedResourceId,
      selectedResourceName |-> selectedResourceName,
      loadingResources |-> loadingResources, slots |-> slots,
      loadingSlots |-> loadingSlots, error |-> error,
      selectedSlotIds |-> selectedSlotIds, resourceReq |-> resourceReq,
      slotReqs |-> slotReqs ]

Commit(st) ==
    /\ initialResourceId' = st.initialResourceId
    /\ selectedDate' = st.selectedDate
    /\ resources' = st.resources
    /\ selectedResourceId' = st.selectedResourceId
    /\ selectedResourceName' = st.selectedResourceName
    /\ loadingResources' = st.loadingResources
    /\ slots' = st.slots
    /\ loadingSlots' = st.loadingSlots
    /\ error' = st.error
    /\ selectedSlotIds' = st.selectedSlotIds
    /\ resourceReq' = st.resourceReq
    /\ slotReqs' = st.slotReqs

NoRequest == [pc |-> "none", business_id |-> NoId, id |-> NoId]

\* A history record of one handled event.  before: the Selection the event
\* found (kept for gestures only); slot, booked, twice: the row a click hit,
\* its flag, and whether the previous event was a click on the same unbooked
\* row; stale: for a resolution, whether its request was for another
\* (resource, date) than the selected one; had: for a resolution, whether the
\* loadSlots call that issued the request found a non-empty Selection; sent:
\* the identifiers BOOK NOW passed on.
Event(kind) == [kind |-> kind, slot |-> NoSlot, booked |-> FALSE, before |-> {},
                stale |-> FALSE, twice |-> FALSE, had |-> FALSE, sent |-> {}]

NoLoad == [status |-> "none", data |-> <<>>]

Users == {"u1", "u2"}

\* A history record of one event of OwnerServicesTable; rows: the answer a
\* resolution handled.
OwnerEvent(kind) == [kind |-> kind, rows |-> <<>>]

\* OwnerServicesTable as constructed: an empty list, flagged loading.
OwnerConstructed ==
    /\ userId \in Users
    /\ ownerMounted = FALSE
    /\ services = <<>>
    /\ loading = TRUE
    /\ ownerReqs = <<>>
    /\ ownerEvent = OwnerEvent("construct")

\* A page without OwnerServicesTable.
OwnerAbsent ==
    /\ userId = "u1"
    /\ ownerMounted = FALSE
    /\ services = <<>>
    /\ loading = TRUE
    /\ ownerReqs = <<>>
    /\ ownerEvent = OwnerEvent("construct")

\* A page without the availability view.
ViewAbsent ==
    /\ mounted = FALSE
    /\ initialResourceId = NoId
    /\ selectedDate = 0
    /\ resources = <<>>
    /\ selectedResourceId = initialResourceId
    /\ selectedResourceName = ""
    /\ loadingResources = FALSE
    /\ slots = <<>>
    /\ loadingSlots = FALSE
    /\ error = Null
    /\ selectedSlotIds = {}
    /\ resourceReq = NoRequest
    /\ slotReqs = <<>>
    /\ lastEvent = Event("construct")
    /\ latestLoad = NoLoad
    /\ landedStale = {}

Init ==
    /\ mounted = FALSE
    /\ initialResourceId \in InitialIds
    /\ selectedDate \in Dates
    /\ resources = <<>>
    /\ selectedResourceId = initialResourceId
    /\ selectedResourceName = ""
    /\ loadingResources = FALSE
    /\ slots = <<>>
    /\ loadingSlots = FALSE
    /\ error = Null
    /\ selectedSlotIds = {}
    /\ resourceReq = NoRequest
    /\ slotReqs = <<>>
    /\ lastEvent = Event("construct")
    /\ latestLoad = NoLoad
    /\ landedStale = {}
    /\ OwnerAbsent

\* ----------------------------------------------------------------- effects

\* loadResources without its early return.
loadResourcesNoSkip(st) ==
    [st EXCEPT !.loadingResources = TRUE,
               !.error = Null,
               !.resourceReq = [pc |-> "lookup", business_id |-> NoId,
                                id |-> st.initialResourceId]]

\* The synchronous head of loadResources, up to its first await.
loadResources(st) ==
    IF st.initialResourceId = NoId THEN st
    ELSE [st EXCEPT !.loadingResources = TRUE,
                    !.error = Null,
                    !.resourceReq = [pc |-> "lookup", business_id |-> NoId,
                                     id |-> st.initialResourceId]]

\* loadSlots without its setSelectedSlotIds(new Set()).
loadSlotsKeep(st) ==
    IF st.selectedResourceId = NoId THEN st
    ELSE LET st1 == [st EXCEPT !.loadingSlots = TRUE, !.error = Null]
         IN  [st1 EXCEPT !.slotReqs =
                 Append(@, [resourceId |-> st1.selectedResourceId,
                            date |-> st1.selectedDate,
                            resources |-> st1.resources,
                            had |-> (st.selectedSlotIds # {}),
                            pre |-> st.selectedSlotIds \cap st1.selectedSlotIds])]

\* loadSlots without its early return.
loadSlotsNoSkip(st) ==
    LET st1 == [st EXCEPT !.loadingSlots = TRUE,
                          !.error = Null,
                          !.selectedSlotIds = {}]
    IN  [st1 EXCEPT !.slotReqs =
            Append(@, [resourceId |-> st1.selectedResourceId,
                       date |-> st1.selectedDate,
                       resources |-> st1.resources,
                       had |-> (st.selectedSlotIds # {}),
                       pre |-> st.selectedSlotIds \cap st1.selectedSlotIds])]

\* The synchronous head of loadSlots, up to its await.  selectedDate is always
\* a Date object, so `!selectedDate` is never true and only the resource
\* identifier can make the loader skip.  The request keeps what the closure
\* captured: selectedResourceId, selectedDate and resources.  `had` and `pre`
\* are history: whether the call found a non-empty Selection, and the
\* identifiers of it that the Selection has held ever since.
loadSlots(st) ==
    IF st.selectedResourceId = NoId THEN st
    ELSE LET st1 == [st EXCEPT !.loadingSlots = TRUE,
                               !.error = Null,
                               !.selectedSlotIds = {}]
         IN  [st1 EXCEPT !.slotReqs =
                 Append(@, [resourceId |-> st1.selectedResourceId,
                            date |-> st1.selectedDate,
                            resources |-> st1.resources,
                            had |-> (st.selectedSlotIds # {}),
                            pre |-> st.selectedSlotIds \cap st1.selectedSlotIds])]

\* Whether running the loadSlots effect on st issues a request.
Fetches(st) == st.selectedResourceId # NoId

\* History kept next to an effect run that took the state from Cur to st.
Track(st, ev) ==
    /\ lastEvent' = ev
    /\ latestLoad' = IF Len(st.slotReqs) > Len(slotReqs)
                     THEN [status |-> "pending", data |-> <<>>]
                     ELSE latestLoad
    /\ landedStale' = landedStale \cap st.selectedSlotIds

\* First commit: both effects run, in the order they are declared.
Mount ==
    /\ ~mounted
    /\ mounted' = TRUE
    /\ LET st == loadSlots(loadResources(Cur))
       IN  Commit(st) /\ Track(st, Event("mount"))
    /\ UNCHANGED owner

\* ------------------------------------------------------------ user gestures

\* A venue change that also re-runs the loadResources effect, as if that
\* effect depended on selectedResourceId.
ChangeResourceReload(r) ==
    /\ mounted
    /\ ~loadingResources
    /\ r \in {x.id : x \in SeqRange(resources)}
    /\ r # selectedResourceId
    /\ Len(slotReqs) < MaxInFlight
    /\ LET st == loadSlots(loadResources([Cur EXCEPT !.selectedResourceId = r]))
       IN  Commit(st) /\ Track(st, [Event("venue") EXCEPT !.before = selectedSlotIds])
    /\ UNCHANGED mounted
    /\ UNCHANGED owner

\* A venue control that offers every resource of the store, loaded or not.
ChangeResourceAny(r) ==
    /\ mounted
    /\ r # selectedResourceId
    /\ Len(slotReqs) < MaxInFlight
    /\ LET st == loadSlots([Cur EXCEPT !.selectedResourceId = r])
       IN  Commit(st) /\ Track(st, [Event("venue") EXCEPT !.before = selectedSlotIds])
    /\ UNCHANGED mounted
    /\ UNCHANGED owner

\* The venue control: disabled={loadingResources}, one option per sibling,
\* and a change event only when the value changes.  The state change re-runs
\* the loadSlots effect.
ChangeResource(r) ==
    /\ mounted
    /\ ~loadingResources
    /\ r \in {x.id : x \in SeqRange(resources)}
    /\ r # selectedResourceId
    /\ Len(slotReqs) < MaxInFlight
    /\ LET st == loadSlots([Cur EXCEPT !.selectedResourceId = r])
       IN  Commit(st) /\ Track(st, [Event("venue") EXCEPT !.before = selectedSlotIds])
    /\ UNCHANGED mounted
    /\ UNCHANGED owner

\* The calendar: onSelect={(d) => d && setSelectedDate(d)}; picking the day
\* that is already selected passes undefined and is dropped.
ChangeDate(d) ==
    /\ mounted
    /\ d \in Dates
    /\ d # selectedDate
    /\ Fetches(Cur) => Len(slotReqs) < MaxInFlight
    /\ LET st == loadSlots([Cur EXCEPT !.selectedDate = d])
       IN  Commit(st) /\ Track(st, [Event("date") EXCEPT !.before = selectedSlotIds])
    /\ UNCHANGED mounted
    /\ UNCHANGED owner

\* toggleSelect without its is_booked guard.
toggleAny(prev, slot) ==
    IF slot.id \in prev THEN prev \ {slot.id} ELSE prev \cup {slot.id}

\* toggleSelect that only ever adds.
toggleAddOnly(prev, slot) ==
    IF slot.is_booked THEN prev ELSE prev \cup {slot.id}

\* toggleSelect applied to the Selection.
toggleSelect(prev, slot) ==
    IF slot.is_booked THEN prev
    ELSE IF slot.id \in prev THEN prev \ {slot.id}
         ELSE prev \cup {slot.id}

\* Rows that stay rendered, and clickable, while the list is loading.
ClickSlotWhileLoading(i) ==
    /\ mounted
    /\ i \in DOMAIN slots
    /\ LET slot == slots[i]
           drop == IF slot.is_booked THEN {} ELSE {slot.id}
       IN  /\ selectedSlotIds' = toggleSelect(selectedSlotIds, slot)
           /\ lastEvent' = [Event("toggle") EXCEPT
                               !.slot = slot.id,
                               !.booked = slot.is_booked,
                               !.before = selectedSlotIds]
           /\ landedStale' = (landedStale \ drop) \cap selectedSlotIds'
           /\ slotReqs' = [k \in DOMAIN slotReqs |->
                              [slotReqs[k] EXCEPT !.pre = @ \ drop]]
    /\ UNCHANGED <<mounted, initialResourceId, selectedDate, resources,
                   selectedResourceId, selectedResourceName, loadingResources,
                   slots, loadingSlots, error, resourceReq, latestLoad>>
    /\ UNCHANGED owner

\* A click on the i-th rendered row; rows are rendered only when !loadingSlots.
ClickSlot(i) ==
    /\ mounted
    /\ ~loadingSlots
    /\ i \in DOMAIN slots
    /\ LET slot == slots[i]
           drop == IF slot.is_booked THEN {} ELSE {slot.id}
       IN  /\ selectedSlotIds' = toggleSelect(selectedSlotIds, slot)
           /\ lastEvent' = [Event("toggle") EXCEPT
                               !.slot = slot.id,
                               !.booked = slot.is_booked,
                               !.before = selectedSlotIds,
                               !.twice = /\ lastEvent.kind = "toggle"
                                         /\ lastEvent.slot = slot.id
                                         /\ ~lastEvent.booked
                                         /\ ~slot.is_booked]
           /\ landedStale' = (landedStale \ drop) \cap selectedSlotIds'
           /\ slotReqs' = [k \in DOMAIN slotReqs |->
                              [slotReqs[k] EXCEPT !.pre = @ \ drop]]
    /\ UNCHANGED <<mounted, initialResourceId, selectedDate, resources,
                   selectedResourceId, selectedResourceName, loadingResources,
                   slots, loadingSlots, error, resourceReq, latestLoad>>
    /\ UNCHANGED owner

\* slot_price || 0
PriceOrZero(p) == IF p = NullPrice THEN 0 ELSE p

RECURSIVE Reduce(_, _)
\* rows.reduce((sum, s) => sum + (s.slot_price || 0), acc)
Reduce(rows, acc) ==
    IF rows = <<>> THEN acc
    ELSE Reduce(Tail(rows), acc + PriceOrZero(Head(rows).slot_price))

\* The fold without its filter on the Selection.
totalAll(selected, rows) == Reduce(rows, 0)

\* The useMemo behind "Total Charges".
total(selected, rows) ==
    Reduce(SelectSeq(rows, LAMBDA s : s.id \in selected), 0)

\* BOOK NOW without its disabled attribute.
SubmitAlways == TRUE

\* BOOK NOW: disabled={selectedSlotIds.size === 0}.
SubmitEnabled == selectedSlotIds # {}

\* Array.from(set), as the set of the array's elements.
ArrayFrom(set) == {x \in SlotIds : x \in set}

\* The click handler of BOOK NOW hands over Array.from(selectedSlotIds).
Submit ==
    /\ mounted
    /\ SubmitEnabled
    /\ lastEvent' = [Event("submit") EXCEPT !.before = selectedSlotIds,
                                            !.sent = ArrayFrom(selectedSlotIds)]
    /\ UNCHANGED <<view, latestLoad, landedStale>>
    /\ UNCHANGED owner

\* --------------------------------------------------------------- rendering

\* The rows of the table body that can be clicked: {!loadingSlots && slots.map(...)}.
RowsShown == IF loadingSlots THEN <<>> ELSE slots

\* The "No slots found for ..." row: {!loadingSlots && slots.length === 0 && ...}.
NoSlotsShown == ~loadingSlots /\ Len(slots) = 0

\* ------------------------------------------------------ request resolutions

\* What the catch blocks store: e.message for an Error, else the fallback.  A
\* backend error object is shown by the fallback text of the load that caught it.
ResourceNotFound == "Resource not found"
ResourcesFailed == "Failed to load resources"
SlotsFailed == "Failed to load slots"

\* The lookup without its .eq("id", ...) filter: the first row of the table.
GetResourceFirst(id) == {CHOOSE x \in ResourceTable : x.name = NameOrder[1]}

\* .eq("id", id).maybeSingle(): the matching rows (none or one).
GetResource(id) == {x \in ResourceTable : x.id = id}

\* loadResources after its first await, the lookup answered without error.
LookupResolved ==
    /\ resourceReq.pc = "lookup"
    /\ LET found == GetResource(resourceReq.id)
       IN  IF found = {}
           THEN /\ Commit([Cur EXCEPT !.error = ResourceNotFound,
                                      !.loadingResources = FALSE,
                                      !.resourceReq = NoRequest])
                /\ Track(Cur, Event("notFound"))
           ELSE LET initialRes == CHOOSE x \in found : TRUE
                IN  /\ Commit([Cur EXCEPT
                          !.selectedResourceName = initialRes.name,
                          !.resourceReq = [pc |-> "siblings",
                                           business_id |-> initialRes.business_id,
                                           id |-> initialRes.id]])
                    /\ Track(Cur, Event("lookup"))
    /\ UNCHANGED mounted
    /\ UNCHANGED owner

\* loadResources whose catch block stores no message.
ResourcesRejectedSilent ==
    /\ resourceReq.pc \in {"lookup", "siblings"}
    /\ Commit([Cur EXCEPT !.loadingResources = FALSE,
                          !.resourceReq = NoRequest])
    /\ Track(Cur, Event("resourcesFailed"))
    /\ UNCHANGED mounted
    /\ UNCHANGED owner

\* loadResources after either await, the request answered with an error.
ResourcesRejected ==
    /\ resourceReq.pc \in {"lookup", "siblings"}
    /\ Commit([Cur EXCEPT !.error = ResourcesFailed,
                          !.loadingResources = FALSE,
                          !.resourceReq = NoRequest])
    /\ Track(Cur, Event("resourcesFailed"))
    /\ UNCHANGED mounted
    /\ UNCHANGED owner

\* loadResources that selects the first sibling instead of keeping the
\* selected resource.
SiblingsResolvedFirst ==
    /\ resourceReq.pc = "siblings"
    /\ Fetches(Cur) => Len(slotReqs) < MaxInFlight
    /\ LET siblings == ListSiblings(resourceReq.business_id)
           st0 == [Cur EXCEPT
                      !.resources = siblings,
                      !.selectedResourceId =
                          IF siblings # <<>> THEN siblings[1].id ELSE @,
                      !.loadingResources = FALSE,
                      !.resourceReq = NoRequest]
           st == loadSlots(st0)
       IN  Commit(st) /\ Track(st, Event("siblings"))
    /\ UNCHANGED mounted
    /\ UNCHANGED owner

\* loadResources after its second await: the sibling list arrived.  The new
\* `resources` array re-runs the loadSlots effect, which lists it as a dependency.
SiblingsResolved ==
    /\ resourceReq.pc = "siblings"
    /\ Fetches(Cur) => Len(slotReqs) < MaxInFlight
    /\ LET st0 == [Cur EXCEPT
                      !.resources = ListSiblings(resourceReq.business_id),
                      !.selectedResourceId =
                          IF @ # NoId THEN @ ELSE resourceReq.id,
                      !.loadingResources = FALSE,
                      !.resourceReq = NoRequest]
           st == loadSlots(st0)
       IN  Commit(st) /\ Track(st, Event("siblings"))
    /\ UNCHANGED mounted
    /\ UNCHANGED owner

\* Whether the request at position i was issued for another (resource, date)
\* than the one selected now.
Stale(i) ==
    \/ slotReqs[i].resourceId # selectedResourceId
    \/ slotReqs[i].date # selectedDate

\* Whether the request at position i is the most recently started one.
Latest(i) == latestLoad.status = "pending" /\ i = Len(slotReqs)

Remove(q, i) == SubSeq(q, 1, i - 1) \o SubSeq(q, i + 1, Len(q))

\* r.name of resources.find((x) => x.id === id), or `none` when find fails.
FindName(list, id, none) ==
    IF \E k \in DOMAIN list : list[k].id = id
    THEN list[CHOOSE k \in DOMAIN list :
                 /\ list[k].id = id
                 /\ \A j \in 1..(k - 1) : list[j].id # id].name
    ELSE none

\* The answer of the slots query of loadSlots for each resource a request can
\* name, each day and each state of the booked flags, tabulated once.
SlotsAnswer ==
    [r \in (InitialIds \ {NoId}) \cup {x.id : x \in ResourceTable},
     d \in Dates, b \in BookedChoices |->
        ListSlots(r, StartOfDay(d), EndOfDay(d), b)]

\* What a loadSlots continuation stores when its query answers with `data`.
applySlots(st, req, data) ==
    [st EXCEPT !.slots = data,
               !.selectedResourceName = FindName(req.resources, req.resourceId, @),
               !.loadingSlots = FALSE]

\* loadSlots after its await, the query answered with rows: the table is read
\* while the slots in `booked` are booked.
LoadSlotsResolved(i, booked) ==
    /\ i \in DOMAIN slotReqs
    /\ booked \in BookedChoices
    /\ LET req == slotReqs[i]
           data == SlotsAnswer[req.resourceId, req.date, booked]
           st == applySlots([Cur EXCEPT !.slotReqs = Remove(@, i)], req, data)
       IN  /\ Commit(st)
           /\ lastEvent' = [Event("slots") EXCEPT !.stale = Stale(i),
                                                  !.had = req.had]
           /\ latestLoad' = IF Latest(i) THEN [status |-> "ok", data |-> data]
                            ELSE latestLoad
           /\ landedStale' = req.pre \cap st.selectedSlotIds
    /\ UNCHANGED mounted
    /\ UNCHANGED owner

\* loadSlots whose rejection path skips the finally block.
LoadSlotsRejectedNoFinally(i) ==
    /\ i \in DOMAIN slotReqs
    /\ Commit([Cur EXCEPT !.error = SlotsFailed,
                          !.slotReqs = Remove(@, i)])
    /\ lastEvent' = [Event("slotsFailed") EXCEPT !.stale = Stale(i)]
    /\ latestLoad' = IF Latest(i) THEN [status |-> "failed", data |-> <<>>]
                     ELSE latestLoad
    /\ UNCHANGED <<mounted, landedStale>>
    /\ UNCHANGED owner

\* loadSlots after its await, the query answered with an error.
LoadSlotsRejected(i) ==
    /\ i \in DOMAIN slotReqs
    /\ Commit([Cur EXCEPT !.error = SlotsFailed,
                          !.loadingSlots = FALSE,
                          !.slotReqs = Remove(@, i)])
    /\ lastEvent' = [Event("slotsFailed") EXCEPT !.stale = Stale(i)]
    /\ latestLoad' = IF Latest(i) THEN [status |-> "failed", data |-> <<>>]
                     ELSE latestLoad
    /\ UNCHANGED <<mounted, landedStale>>
    /\ UNCHANGED owner

\* ------------------------------------------- OwnerServicesTable (part_001)

\* At most this many rows in one answer of the business_resources query.
MaxRows == 3

\* default_duration_min of a service whose column is NULL.
NullDuration == -1

\* A joined row (services:service_id, businesses:business_id) is the set of
\* the at most one row it points to: {} is null.  The businesses join is null
\* for a resource whose business has another owner, the services join for a
\* resource whose service row cannot be read.
ServiceRows ==
    { [id |-> 1, popular_products |-> "Futsal Field Rental", default_duration_min |-> 60],
      [id |-> 1, popular_products |-> "Futsal",              default_duration_min |-> NullDuration],
      [id |-> 2, popular_products |-> "Tennis",              default_duration_min |-> 45] }

\* The rows an answer for user u is made of.
RowChoices(u) ==
    { [service_id |-> s.id, services |-> {s}, businesses |-> {[owner_id |-> u]}] :
         s \in ServiceRows }
    \cup { [service_id |-> 1,
            services |-> {CHOOSE s \in ServiceRows : s.popular_products = "Futsal"},
            businesses |-> {}],
           [service_id |-> 2, services |-> {}, businesses |-> {[owner_id |-> u]}] }

\* The answers of the query for each user: every list of at most MaxRows such
\* rows.
Answers ==
    [u \in Users |-> UNION { [1..n -> RowChoices(u)] : n \in 0..MaxRows }]

\* The body of the forEach that also counts rows whose businesses join is null.
forEachItemAnyBusiness(serviceMap, item) ==
    IF item.services # {}
    THEN IF \E k \in DOMAIN serviceMap : serviceMap[k].service_id = item.service_id
         THEN [k \in DOMAIN serviceMap |->
                  IF serviceMap[k].service_id = item.service_id
                  THEN [serviceMap[k] EXCEPT !.total_resources = @ + 1]
                  ELSE serviceMap[k]]
         ELSE LET s == CHOOSE x \in item.services : TRUE
              IN  Append(serviceMap,
                         [service_id |-> item.service_id,
                          service_name |-> s.popular_products,
                          default_duration_min |-> s.default_duration_min,
                          total_resources |-> 1])
    ELSE serviceMap

\* The body of data.forEach: serviceMap is the Map as the sequence of its
\* values in insertion order (set on an existing key keeps its place).
forEachItem(serviceMap, item) ==
    IF item.services # {} /\ item.businesses # {}
    THEN IF \E k \in DOMAIN serviceMap : serviceMap[k].service_id = item.service_id
         THEN [k \in DOMAIN serviceMap |->
                  IF serviceMap[k].service_id = item.service_id
                  THEN [serviceMap[k] EXCEPT !.total_resources = @ + 1]
                  ELSE serviceMap[k]]
         ELSE LET s == CHOOSE x \in item.services : TRUE
              IN  Append(serviceMap,
                         [service_id |-> item.service_id,
                          service_name |-> s.popular_products,
                          default_duration_min |-> s.default_duration_min,
                          total_resources |-> 1])
    ELSE serviceMap

RECURSIVE forEach(_, _)
\* data?.forEach(...) over a new Map, then Array.from(serviceMap.values()).
forEach(data, serviceMap) ==
    IF data = <<>> THEN serviceMap
    ELSE forEach(Tail(data), forEachItem(serviceMap, Head(data)))

\* The synchronous head of fetchOwnerServices, up to its await.
fetchOwnerServices(u) ==
    /\ loading' = TRUE
    /\ ownerReqs' = Append(ownerReqs, [userId |-> u])
    /\ UNCHANGED services

\* First commit of OwnerServicesTable: the effect runs.
OwnerMount ==
    /\ ~ownerMounted
    /\ ownerMounted' = TRUE
    /\ fetchOwnerServices(userId)
    /\ ownerEvent' = OwnerEvent("mount")
    /\ UNCHANGED <<userId, view, lastEvent, latestLoad, landedStale>>

\* The parent renders the table for another user: the effect depends on
\* userId and runs again.
ChangeUser(u) ==
    /\ ownerMounted
    /\ u \in Users
    /\ u # userId
    /\ Len(ownerReqs) < MaxInFlight
    /\ userId' = u
    /\ fetchOwnerServices(u)
    /\ ownerEvent' = OwnerEvent("user")
    /\ UNCHANGED <<ownerMounted, view, lastEvent, latestLoad, landedStale>>

\* fetchOwnerServices after its await, the query answered with `data` (a null
\* data behaves as the empty list).
FetchResolved(i) ==
    /\ i \in DOMAIN ownerReqs
    /\ \E data \in Answers[ownerReqs[i].userId] :
          /\ services' = forEach(data, <<>>)
          /\ ownerEvent' = [OwnerEvent("fetched") EXCEPT !.rows = data]
    /\ loading' = FALSE
    /\ ownerReqs' = Remove(ownerReqs, i)
    /\ UNCHANGED <<userId, ownerMounted, view, lastEvent, latestLoad, landedStale>>

\* fetchOwnerServices after its await, the query answered with an error: the
\* catch block logs it, the finally block clears the flag.
FetchRejected(i) ==
    /\ i \in DOMAIN ownerReqs
    /\ loading' = FALSE
    /\ ownerReqs' = Remove(ownerReqs, i)
    /\ ownerEvent' = OwnerEvent("failed")
    /\ UNCHANGED <<userId, ownerMounted, services, view, lastEvent, latestLoad,
                   landedStale>>

\* ------------------------------------------------------------ specification

Next ==
    \/ Mount
    \/ \E r \in {x.id : x \in ResourceTable} : ChangeResource(r)
    \/ \E d \in Dates : ChangeDate(d)
    \/ \E i \in 1..Cardinality(SlotTable) : ClickSlot(i)
    \/ Submit
    \/ LookupResolved
    \/ ResourcesRejected
    \/ SiblingsResolved
    \/ \E i \in 1..MaxInFlight, b \in BookedChoices : LoadSlotsResolved(i, b)
    \/ \E i \in 1..MaxInFlight : LoadSlotsRejected(i)

Spec == Init /\ [][Next]_vars

OwnerInit == OwnerConstructed /\ ViewAbsent

OwnerNext ==
    \/ OwnerMount
    \/ \E u \in Users : ChangeUser(u)
    \/ \E i \in 1..MaxInFlight : FetchResolved(i)
    \/ \E i \in 1..MaxInFlight : FetchRejected(i)

OwnerSpec == OwnerInit /\ [][OwnerNext]_vars

\* ------------------------------------------------------------------ claims

\* Identifiers of the rows of the current slot list that are not booked.
Selectable == {s.id : s \in {x \in SeqRange(slots) : ~x.is_booked}}

RECURSIVE SumRows(_)
SumRows(rows) ==
    IF rows = {} THEN 0
    ELSE LET r == CHOOSE x \in rows : TRUE
         IN  (IF r.slot_price = NullPrice THEN 0 ELSE r.slot_price)
             + SumRows(rows \ {r})

\* C1: every identifier in the Selection is the identifier of a slot of the
\* current slot list whose booked flag is false.
C1_SelectionWithinUnbookedSlots == selectedSlotIds \subseteq Selectable

\* C2: once no slot fetch is outstanding, the slot list is the result of the
\* most recently started fetch (when that fetch answered with rows).
C2_LastInitiatedWins ==
    (slotReqs = <<>> /\ latestLoad.status = "ok") => slots = latestLoad.data

\* C3: a slot fetch that completes for another (resource, date) than the one
\* selected at that moment leaves the slot list unchanged.
C3_StaleResultDiscarded ==
    [][(lastEvent'.kind = "slots" /\ lastEvent'.stale) => slots' = slots]_vars

\* C4: every step that changes the selected resource or the selected date
\* ends with an empty Selection.
C4_ChangeEmptiesSelection ==
    [][(selectedResourceId' # selectedResourceId \/ selectedDate' # selectedDate)
          => selectedSlotIds' = {}]_vars

\* C4 witness: a date change found two slots selected and a fetch in flight,
\* and left the Selection empty.
C4_Witness ==
    /\ lastEvent.kind = "date"
    /\ Cardinality(lastEvent.before) = 2
    /\ Len(slotReqs) = 2
    /\ selectedSlotIds = {}

\* C5: the total is the sum of price (a missing price counting 0) over exactly
\* the rows of the current slot list whose identifier is selected, so a
\* selected identifier without a row adds nothing, and it is 0 for an empty
\* Selection.
C5_TotalIsSumOverSelectedRows ==
    /\ total(selectedSlotIds, slots)
          = SumRows({s \in SeqRange(slots) : s.id \in selectedSlotIds})
    /\ selectedSlotIds = {} => total(selectedSlotIds, slots) = 0

\* C5 witness: the Selection holds s3, which has no row in the list, and s1,
\* which has one, next to the unselected priced row s2; the total is s1's price.
C5_Witness ==
    /\ selectedSlotIds = {"s1", "s3"}
    /\ {s.id : s \in SeqRange(slots)} = {"s1", "s2"}
    /\ total(selectedSlotIds, slots) = 10

\* C6: a click on a booked row leaves the Selection, and the error message,
\* exactly as they were.
C6_BookedToggleIsNoOp ==
    [][(lastEvent'.kind = "toggle" /\ lastEvent'.booked)
          => (selectedSlotIds' = selectedSlotIds /\ error' = error)]_vars

\* C6 witness: the clicked row is booked and its identifier is selected.
C6_Witness ==
    /\ lastEvent.kind = "toggle"
    /\ lastEvent.booked
    /\ lastEvent.slot \in selectedSlotIds
    /\ lastEvent.before = selectedSlotIds

\* C7: a click on an unbooked row adds its identifier when absent and removes
\* it when present, touching no other member; a second click on the same row
\* right after the first restores the Selection the first one found.
C7_ToggleFlipsAndIsInvolution ==
    [][(lastEvent'.kind = "toggle" /\ ~lastEvent'.booked) =>
          LET s == lastEvent'.slot IN
          /\ s \notin selectedSlotIds => selectedSlotIds' = selectedSlotIds \cup {s}
          /\ s \in selectedSlotIds => selectedSlotIds' = selectedSlotIds \ {s}
          /\ (lastEvent.kind = "toggle" /\ lastEvent.slot = s /\ ~lastEvent.booked)
                => selectedSlotIds' = lastEvent.before]_vars

\* C7 witness: the second of two clicks on the same unbooked row has just
\* removed it again, and another member is still selected.
C7_Witness ==
    /\ lastEvent.kind = "toggle"
    /\ lastEvent.twice
    /\ lastEvent.slot \notin selectedSlotIds
    /\ selectedSlotIds # {}

\* C8: the slot list never holds the rows of a load while the Selection still
\* holds an identifier that was chosen before that load was started.
C8_ResetBeforeResultLands == landedStale = {}

\* C8 witness: the rows of a load have just landed, and the loadSlots call that
\* started it had found a non-empty Selection.
C8_Witness ==
    /\ lastEvent.kind = "slots"
    /\ lastEvent.had
    /\ slots # <<>>

\* C9: the Selection changes only by a click on a row or by a change of the
\* selected resource or date.
C9_OnlyToggleAndChangeMutate ==
    [][selectedSlotIds' # selectedSlotIds
          => lastEvent'.kind \in {"toggle", "venue", "date"}]_vars

\* C10: BOOK NOW can be used exactly when the Selection is non-empty, and its
\* handler passes on exactly the selected identifiers and changes no state.
C10_SubmitOnlyNonEmpty ==
    /\ [](mounted => ((ENABLED Submit) <=> selectedSlotIds # {}))
    /\ [][lastEvent'.kind = "submit" =>
             /\ selectedSlotIds # {}
             /\ lastEvent'.sent = selectedSlotIds
             /\ view' = view]_vars

\* C10 witness: BOOK NOW was used with two identifiers selected.
C10_Witness ==
    /\ lastEvent.kind = "submit"
    /\ Cardinality(lastEvent.sent) = 2
    /\ lastEvent.sent = selectedSlotIds

\* C11: right after the rows of a slot fetch that returned an empty list have
\* been applied, loading is over, no slot row is shown, the no-slots row is
\* shown, the total is 0 and BOOK NOW is disabled.
C11_EmptyResultView ==
    (lastEvent.kind = "slots" /\ slots = <<>>) =>
        /\ ~loadingSlots
        /\ RowsShown = <<>>
        /\ NoSlotsShown
        /\ total(selectedSlotIds, slots) = 0
        /\ ~SubmitEnabled

\* C12: right after a failed slot fetch has been handled, an error message is
\* set and the slot list is empty.
C12_FailureEmptiesSlots ==
    lastEvent.kind = "slotsFailed" => (error # Null /\ slots = <<>>)

\* ---------------------------------------------------------------- fairness

\* Every remote request eventually answers: an awaited request that stays
\* outstanding is eventually resolved or rejected.
Answered ==
    /\ WF_vars(LookupResolved \/ ResourcesRejected \/ SiblingsResolved)
    /\ WF_vars(\E i \in 1..MaxInFlight :
                  \/ \E b \in BookedChoices : LoadSlotsResolved(i, b)
                  \/ LoadSlotsRejected(i))

FairSpec == Spec /\ Answered

\* C13: a loading flag is never set while no request of its load is
\* outstanding, and (every request being answered) the view always reaches,
\* again and again, a state with both loading flags false.
C13_LoadingAlwaysClears ==
    /\ [](slotReqs = <<>> => ~loadingSlots)
    /\ [](resourceReq.pc = "none" => ~loadingResources)
    /\ []<>(~loadingSlots /\ ~loadingResources)

\* C13 witness: a slot load failed, a resource load failed, and both flags
\* are false with no request outstanding.
C13_Witness ==
    /\ lastEvent.kind = "slotsFailed"
    /\ error = SlotsFailed
    /\ resourceReq.pc = "none" /\ resources = <<>> /\ initialResourceId = "R1"
    /\ slotReqs = <<>>
    /\ ~loadingSlots /\ ~loadingResources

\* C14: while a slot fetch is outstanding the slot list is flagged loading,
\* and while the resource resolution is outstanding the resource list is
\* flagged loading.
C14_OutstandingMeansLoading ==
    /\ slotReqs # <<>> => loadingSlots
    /\ resourceReq.pc # "none" => loadingResources

\* C15: a run of the slot loader that finds no resource selected issues no
\* fetch and leaves the slot list, the loading flag and the error message as
\* they were (the date is never absent).
C15_SkipLeavesSlotState ==
    [][(lastEvent'.kind \in {"mount", "venue", "date", "siblings"}
            /\ selectedResourceId' = NoId)
          => /\ slotReqs' = slotReqs
             /\ slots' = slots
             /\ loadingSlots' = loadingSlots
             /\ error' = error]_vars

\* C15 witness: a date change ran the loader with no resource selected.
C15_Witness ==
    /\ lastEvent.kind = "date"
    /\ selectedResourceId = NoId
    /\ slotReqs = <<>>
    /\ ~loadingSlots

\* C16: when resource resolution completes successfully, the selected
\* resource becomes the starting resource only if none was selected, and a
\* resource that is already selected is kept.
C16_ResolutionKeepsSelected ==
    [][lastEvent'.kind = "siblings" =>
          selectedResourceId' = IF selectedResourceId = NoId
                                THEN resourceReq.id
                                ELSE selectedResourceId]_vars

\* C16 witness: resolution has just completed with R2 selected, which is not
\* the first entry of the sibling list.
C16_Witness ==
    /\ lastEvent.kind = "siblings"
    /\ selectedResourceId = "R2"
    /\ Len(resources) = 2
    /\ resources[1].id = "R1"

\* C17: when the lookup of the starting resource finds no row, the handling
\* sets a message, issues no sibling query and clears the loading flag, and
\* the sibling list and the resolved name are empty then and ever after.
C17_NotFoundShowsNothing ==
    /\ [][lastEvent'.kind = "notFound" =>
             /\ error' = ResourceNotFound
             /\ resourceReq'.pc = "none"
             /\ ~loadingResources'
             /\ resources' = <<>>
             /\ selectedResourceName' = ""]_vars
    /\ [](initialResourceId = "RX" =>
             /\ resources = <<>>
             /\ selectedResourceName = ""
             /\ resourceReq.pc # "siblings")

\* C17 witness: the lookup for RX has just found no row.
C17_Witness ==
    /\ lastEvent.kind = "notFound"
    /\ initialResourceId = "RX"
    /\ error = ResourceNotFound
    /\ ~loadingResources

\* C18: with an empty starting resource identifier no request is ever issued
\* and the resource state, the slot list and the Selection stay empty.
C18_NoStartingResource ==
    initialResourceId = NoId =>
        /\ resourceReq.pc = "none"
        /\ resources = <<>>
        /\ selectedResourceName = ""
        /\ ~loadingResources
        /\ selectedResourceId = NoId
        /\ slotReqs = <<>>
        /\ ~loadingSlots
        /\ slots = <<>>
        /\ selectedSlotIds = {}

\* C18 witness: the view was mounted without a starting resource and the user
\* has changed the date since.
C18_Witness ==
    /\ initialResourceId = NoId
    /\ mounted
    /\ lastEvent.kind = "date"

\* C19: the resource resolution is started only by the first commit, hence at
\* most once for the starting identifier, and once the sibling list is set it
\* is never replaced and no resource request is outstanding again.
C19_ResolvedOnce ==
    /\ [][(resourceReq'.pc = "lookup" /\ resourceReq.pc # "lookup") => ~mounted]_vars
    /\ [][mounted => mounted']_vars
    /\ [][resources # <<>> =>
             (resources' = resources /\ resourceReq'.pc = "none")]_vars

\* C19 witness: with the sibling list set, the user changed the venue and the
\* date, slot fetches landed, and the list is still the one resolved.
C19_Witness ==
    /\ resources = ListSiblings("B1")
    /\ selectedResourceId # initialResourceId
    /\ lastEvent.kind = "slots"
    /\ resourceReq.pc = "none"

\* Identifiers of the slots of resource r that start on day d, the next
\* day's first instant excluded.
StartingOn(r, d) ==
    {s.id : s \in {x \in SlotTable :
                      /\ x.resource_id = r
                      /\ StartOfDay(d) <= x.start_time
                      /\ x.start_time < StartOfDay(d + 1)}}

\* C20: the rows a slot fetch for (r, d) delivers are exactly the slots of r
\* that start in [startOfDay(d), startOfDay(d+1)), ascending by start time,
\* and none of another resource.  Stated on the state right after the fetch
\* for the selected (resource, date) landed.
C20_WholeDayFetched ==
    (lastEvent.kind = "slots" /\ ~lastEvent.stale) =>
        /\ {s.id : s \in SeqRange(slots)} = StartingOn(selectedResourceId, selectedDate)
        /\ \A i, j \in DOMAIN slots : i < j => slots[i].start_time <= slots[j].start_time
        /\ \A i \in DOMAIN slots : slots[i].resource_id = selectedResourceId

\* Identifiers the venue control offers.
Offered == {x.id : x \in SeqRange(resources)}

C22_NameOfSelected ==
    (slotReqs = <<>> /\ resourceReq.pc = "none" /\ selectedResourceId \in Offered)
        => selectedResourceName = FindName(resources, selectedResourceId, "")

\* The resource resolution has ended, with the sibling list set or without it.
ResolutionSucceeded == resourceReq.pc = "none" /\ resources # <<>>
ResolutionFailed ==
    /\ mounted /\ initialResourceId # NoId
    /\ resourceReq.pc = "none" /\ resources = <<>>

\* C23: once no fetch is outstanding, no message is displayed if the resource
\* resolution and the most recently started slot load both succeeded, and a
\* message is displayed if the resolution or that slot load failed.
C23_ErrorReflectsLatestLoads ==
    (slotReqs = <<>> /\ resourceReq.pc = "none") =>
        /\ (ResolutionSucceeded /\ latestLoad.status = "ok") => error = Null
        /\ (ResolutionFailed \/ latestLoad.status = "failed") => error # Null

\* C24: whenever the slot list is flagged loading the Selection is empty, the
\* flag is raised only together with the Selection reset, and no click on a
\* row happens while it is raised.
C24_LoadingMeansNoSelection ==
    /\ [](loadingSlots => selectedSlotIds = {})
    /\ [][(loadingSlots' /\ ~loadingSlots) => selectedSlotIds' = {}]_vars
    /\ [][lastEvent'.kind = "toggle" => ~loadingSlots]_vars
    /\ [](loadingSlots => RowsShown = <<>>)

\* C24 witness: a venue change found a non-empty Selection and rows in the
\* list; the list is now flagged loading and the Selection is empty.
C24_Witness ==
    /\ lastEvent.kind = "venue"
    /\ lastEvent.before # {}
    /\ slots # <<>>
    /\ loadingSlots
    /\ selectedSlotIds = {}

\* C25: (the store lists the starting resource among the resources of its
\* business) whenever the sibling list is non-empty the selected resource is
\* one of its members; a venue change happens only while the resource list is
\* not loading and only to an offered sibling.
C25_SelectedIsSibling ==
    /\ [](resources # <<>> => selectedResourceId \in Offered)
    /\ [][lastEvent'.kind = "venue" =>
             /\ ~loadingResources
             /\ selectedResourceId' \in Offered]_vars
    /\ [](\A r \in {x.id : x \in ResourceTable} :
             (ENABLED ChangeResource(r)) => (~loadingResources /\ r \in Offered))

\* C25 witness: started on R2, the user has just changed the venue to its
\* sibling R1.
C25_Witness ==
    /\ lastEvent.kind = "venue"
    /\ initialResourceId = "R2"
    /\ selectedResourceId = "R1"
    /\ Len(resources) = 2

\* Positions of the rows of an answer whose joined service and joined
\* business are both present.
Counted(rows) == {i \in DOMAIN rows : rows[i].services # {} /\ rows[i].businesses # {}}

\* C26: after a successful fetchOwnerServices the services list has exactly
\* one entry per distinct service_id among the rows whose two joins are both
\* non-null; its total_resources is the number of such rows with that
\* service_id, its name and default duration are those of the first such
\* row; and a failed fetch leaves the services list as it was and clears
\* loading.
C26_OneEntryPerService ==
    /\ [](ownerEvent.kind = "fetched" =>
            LET rows == ownerEvent.rows
                ids == {rows[i].service_id : i \in Counted(rows)}
            IN  /\ {e.service_id : e \in SeqRange(services)} = ids
                /\ Len(services) = Cardinality(ids)
                /\ \A k \in DOMAIN services :
                      LET e == services[k]
                          mine == {i \in Counted(rows) : rows[i].service_id = e.service_id}
                          first == CHOOSE i \in mine : \A j \in mine : i <= j
                          s == CHOOSE x \in rows[first].services : TRUE
                      IN  /\ e.total_resources = Cardinality(mine)
                          /\ e.service_name = s.popular_products
                          /\ e.default_duration_min = s.default_duration_min
                /\ ~loading)
    /\ [][ownerEvent'.kind = "failed" => (services' = services /\ ~loading')]_vars

\* C26 witness: an answer of three rows was grouped: two counted rows of
\* service 1 with different names and one row whose business join is null.
C26_Witness ==
    /\ ownerEvent.kind = "fetched"
    /\ Len(ownerEvent.rows) = 3
    /\ Cardinality(Counted(ownerEvent.rows)) = 2
    /\ Len(services) = 1
    /\ services[1].total_resources = 2
    /\ services[1].service_name = "Futsal"

====
